---- MODULE Spec2Model ----
(***************************************************************************)
(* SAP repair variance analyzer: load_sap_data, find_anomalous_repairs and *)
(* write_results_to_file of orchestration_logic.py, driven by the __main__ *)
(* section, by the Streamlit "Run Analysis" handler of app_gui.py, or by a *)
(* direct caller of the three functions.                                   *)
(***************************************************************************)
EXTENDS Integers, Sequences, FiniteSets

VARIABLES
    driver,     \* who runs the pipeline: "main", "gui" or "lib"
    pc,         \* position of the driver
    src,        \* the Excel source handed to load_sap_data
    loadRet,    \* what load_sap_data gave its caller
    data,       \* the DataFrame the pipeline carries
    detectRet,  \* what find_anomalous_repairs gave its caller
    flagged,    \* the caller's list object of anomaly dicts
    argBefore,  \* contents of that list at the call of write_results_to_file
    writeRet,   \* what write_results_to_file gave its caller
    failAt,     \* where the file system failed in write_results_to_file
    file,       \* flagged_repairs_detailed.txt in the working directory
    ui          \* what the Streamlit page shows

vars == <<driver, pc, src, loadRet, data, detectRet, flagged, argBefore,
          writeRet, failAt, file, ui>>

----------------------------------------------------------------------------
(* Bounds *)

MaxRows == 4

----------------------------------------------------------------------------
(* Strings are sequences of character codes; Python compares them          *)
(* lexicographically by code point.                                        *)

R10 == <<82, 49, 48>>
R9 == <<82, 57>>

RepairIds == {R10, R9}

Codes == {161, 251, 252, 999}

\* A row of the sheet.  null is pandas' missing value in 'Repair Number'.
Row(r, n, c) == [rid |-> r, null |-> n, code |-> c]

RowValues ==
    {Row(r, FALSE, c) : r \in RepairIds, c \in Codes}
        \cup {Row(<<>>, TRUE, 251)}

Tables(n) == UNION {[1..k -> RowValues] : k \in 0..n}

RECURSIVE StrLess(_, _)
StrLess(s, t) ==
    IF t = <<>> THEN FALSE
    ELSE IF s = <<>> THEN TRUE
    ELSE IF Head(s) # Head(t) THEN Head(s) < Head(t)
    ELSE StrLess(Tail(s), Tail(t))

RECURSIVE SortedInts(_)
SortedInts(S) ==
    IF S = {} THEN <<>>
    ELSE LET m == CHOOSE x \in S : \A y \in S : x <= y
         IN <<m>> \o SortedInts(S \ {m})

RECURSIVE SortedStrs(_)
SortedStrs(S) ==
    IF S = {} THEN <<>>
    ELSE LET m == CHOOSE x \in S : \A y \in S : x = y \/ StrLess(x, y)
         IN <<m>> \o SortedStrs(S \ {m})

----------------------------------------------------------------------------
(* load_sap_data *)

EmptyDataFrame == [hasCols |-> FALSE, rows |-> <<>>]

Sources ==
    {[readable |-> TRUE, hasRepair |-> TRUE, hasCode |-> TRUE, rows |-> t] :
        t \in Tables(MaxRows)}
    \cup {[readable |-> TRUE, hasRepair |-> a, hasCode |-> b, rows |-> t] :
            a \in BOOLEAN, b \in BOOLEAN, t \in Tables(1)}
    \cup {[readable |-> FALSE, hasRepair |-> FALSE, hasCode |-> FALSE,
           rows |-> <<>>]}

\* The ValueError raised for missing columns is raised inside the try block
\* and is caught by the function's own "except Exception".
load_sap_data(s) ==
    IF ~s.readable
    THEN [raised |-> FALSE, value |-> EmptyDataFrame]
    ELSE IF ~(s.hasRepair /\ s.hasCode)
    THEN [raised |-> FALSE, value |-> EmptyDataFrame]
    ELSE [raised |-> FALSE, value |-> [hasCols |-> TRUE, rows |-> s.rows]]

----------------------------------------------------------------------------
(* find_anomalous_repairs *)

required_codes == {251, 161, 252}

\* data.groupby('Repair Number'): keys are the non-null repair numbers,
\* iterated in ascending order.
GroupKeys(rows) ==
    SortedStrs({rows[i].rid : i \in {j \in DOMAIN rows : ~rows[j].null}})

RECURSIVE MovementCodes(_, _)
MovementCodes(rows, r) ==
    IF rows = <<>> THEN <<>>
    ELSE IF ~Head(rows).null /\ Head(rows).rid = r
    THEN <<Head(rows).code>> \o MovementCodes(Tail(rows), r)
    ELSE MovementCodes(Tail(rows), r)

\* collections.Counter over a list
RECURSIVE Counter(_)
Counter(codes) ==
    IF codes = <<>> THEN <<>>
    ELSE LET rest == Counter(Tail(codes))
             c == Head(codes)
         IN IF c \in DOMAIN rest
            THEN [rest EXCEPT ![c] = @ + 1]
            ELSE [k \in DOMAIN rest \cup {c} |-> IF k = c THEN 1 ELSE rest[k]]

Get(code_counts, code, default) ==
    IF code \in DOMAIN code_counts THEN code_counts[code] ELSE default

\* Variant: the check for unexpected codes and the total count left out.
is_perfect_required_only(total_count, code_counts) ==
    \A code \in required_codes : Get(code_counts, code, 0) = 1

\* Variant: the total count compared with 4.
is_perfect_total_4(total_count, code_counts) ==
    /\ total_count = 4
    /\ \A code \in required_codes : Get(code_counts, code, 0) = 1
    /\ \A code \in DOMAIN code_counts : code \in required_codes

is_perfect(total_count, code_counts) ==
    /\ total_count = 3
    /\ \A code \in required_codes : Get(code_counts, code, 0) = 1
    /\ \A code \in DOMAIN code_counts : code \in required_codes

missing_required(code_counts) ==
    SortedInts({code \in required_codes : Get(code_counts, code, 0) = 0})

\* Variant: ">= 1" in place of "> 1".
extra_required_from_1(code_counts) ==
    SortedInts({code \in required_codes : Get(code_counts, code, 0) >= 1})

extra_required(code_counts) ==
    SortedInts({code \in required_codes : Get(code_counts, code, 0) > 1})

unexpected_found(code_counts) ==
    SortedInts({code \in DOMAIN code_counts : code \notin required_codes})

anomaly_info(r, movement_codes) ==
    LET code_counts == Counter(movement_codes)
    IN [RepairNumber |-> r,
        MovementCodesFound |-> code_counts,
        MissingCodes |-> missing_required(code_counts),
        ExtraCodes |-> extra_required(code_counts),
        UnexpectedCodes |-> unexpected_found(code_counts),
        TotalCount |-> Len(movement_codes)]

RECURSIVE AnalyzeGroups(_, _)
AnalyzeGroups(keys, rows) ==
    IF keys = <<>> THEN <<>>
    ELSE LET movement_codes == MovementCodes(rows, Head(keys))
             rest == AnalyzeGroups(Tail(keys), rows)
         IN IF is_perfect(Len(movement_codes), Counter(movement_codes))
            THEN rest
            ELSE <<anomaly_info(Head(keys), movement_codes)>> \o rest

find_anomalous_repairs(d) ==
    IF d.rows = <<>> \/ ~d.hasCols
    THEN [raised |-> FALSE, value |-> <<>>]
    ELSE [raised |-> FALSE, value |-> AnalyzeGroups(GroupKeys(d.rows), d.rows)]

----------------------------------------------------------------------------
(* write_results_to_file *)

\* detailed_anomalies.sort(key=lambda x: x.get('Repair Number', '')) is a
\* stable sort on the string key.
RECURSIVE InsertByRepairNumber(_, _)
InsertByRepairNumber(sorted, x) ==
    IF sorted = <<>> THEN <<x>>
    ELSE IF StrLess(x.RepairNumber, Head(sorted).RepairNumber)
    THEN <<x>> \o sorted
    ELSE <<Head(sorted)>> \o InsertByRepairNumber(Tail(sorted), x)

RECURSIVE InsertAll(_, _)
InsertAll(sorted, rest) ==
    IF rest = <<>> THEN sorted
    ELSE InsertAll(InsertByRepairNumber(sorted, Head(rest)), Tail(rest))

\* Variant: the list is written in the order given.
SortByRepairNumber_skipped(detailed_anomalies) == detailed_anomalies

SortByRepairNumber(detailed_anomalies) == InsertAll(<<>>, detailed_anomalies)

\* One clause of an anomaly line: "<tag>: <items joined by ', '>".  An item
\* is a repair number, a bare code, or "code(tally)".
Clause(tag, rid, codes, tallies) ==
    [tag |-> tag, rid |-> rid, codes |-> codes, tallies |-> tallies]

\* f"{code}({anomaly['Movement Codes Found'].get(code,'?')})"; -1 stands
\* for the '?' of a code absent from the tally.
Details(anomaly, codes) ==
    [i \in 1..Len(codes) |-> Get(anomaly.MovementCodesFound, codes[i], -1)]

\* Variant: the Missing clause is appended whether or not codes are missing.
Parts_always_missing(anomaly) ==
    <<Clause("Repair", anomaly.RepairNumber, <<>>, <<>>),
      Clause("Missing", <<>>, anomaly.MissingCodes, <<>>)>>
    \o (IF anomaly.ExtraCodes # <<>>
        THEN <<Clause("Extra Count(s)", <<>>, anomaly.ExtraCodes,
                      Details(anomaly, anomaly.ExtraCodes))>>
        ELSE <<>>)
    \o (IF anomaly.UnexpectedCodes # <<>>
        THEN <<Clause("Unexpected Code(s)", <<>>, anomaly.UnexpectedCodes,
                      Details(anomaly, anomaly.UnexpectedCodes))>>
        ELSE <<>>)

Parts(anomaly) ==
    <<Clause("Repair", anomaly.RepairNumber, <<>>, <<>>)>>
    \o (IF anomaly.MissingCodes # <<>>
        THEN <<Clause("Missing", <<>>, anomaly.MissingCodes, <<>>)>>
        ELSE <<>>)
    \o (IF anomaly.ExtraCodes # <<>>
        THEN <<Clause("Extra Count(s)", <<>>, anomaly.ExtraCodes,
                      Details(anomaly, anomaly.ExtraCodes))>>
        ELSE <<>>)
    \o (IF anomaly.UnexpectedCodes # <<>>
        THEN <<Clause("Unexpected Code(s)", <<>>, anomaly.UnexpectedCodes,
                      Details(anomaly, anomaly.UnexpectedCodes))>>
        ELSE <<>>)

\* A line of the report file.
Line(kind, parts, count) == [kind |-> kind, parts |-> parts, count |-> count]

SentinelLine == Line("No anomalous repair numbers found", <<>>, 0)
HeaderLine == Line("Concise Anomaly Report:", <<>>, 0)
RuleLine == Line("============", <<>>, 0)
BlankLine == Line("", <<>>, 0)
TotalLine(n) == Line("Total flagged:", <<>>, n)
AnomalyLine(anomaly) == Line("anomaly", Parts(anomaly), 0)

\* Variant: no branch for the empty list.
ReportLines_no_empty_case(sorted) ==
    <<HeaderLine, RuleLine>>
    \o [i \in 1..Len(sorted) |-> AnomalyLine(sorted[i])]
    \o <<RuleLine, BlankLine, TotalLine(Len(sorted))>>

ReportLines(sorted) ==
    IF sorted = <<>>
    THEN <<SentinelLine>>
    ELSE <<HeaderLine, RuleLine>>
         \o [i \in 1..Len(sorted) |-> AnomalyLine(sorted[i])]
         \o <<RuleLine, BlankLine, TotalLine(Len(sorted))>>

StatusMessage(sorted) ==
    IF sorted = <<>>
    THEN [text |-> "No anomalies found. Results summary written to", count |-> 0]
    ELSE [text |-> "Found anomalies. Concise report written to",
          count |-> Len(sorted)]

ErrorMessage == [text |-> "Error writing concise results to file", count |-> 0]

\* The report file: absent, or left by an earlier run (fresh = FALSE), or
\* written by this run.  The upload page reads DEFAULT_OUTPUT_FILE from the
\* directory the app runs in, where earlier clicks of "Run Analysis" leave it.
NoFile == [exists |-> FALSE, fresh |-> FALSE, lines |-> <<>>]
EarlierFile == [exists |-> TRUE, fresh |-> FALSE, lines |-> <<SentinelLine>>]
WrittenFile(lines) == [exists |-> TRUE, fresh |-> TRUE, lines |-> lines]

FailPoints == {"none", "open", "write"}

\* What one call does: the list after the in-place sort, the file, and the
\* returned string.  fail = "open": open(..., 'w') raises and the file is
\* untouched.  fail = "write": the file was opened, hence truncated, and the
\* text, which f.write only buffers (a report of this size is far below the
\* buffer size), fails to reach the disk when the with block closes the
\* file.  Either exception is caught and the error text returned.
write_results_to_file(detailed_anomalies, old, fail) ==
    LET sorted == SortByRepairNumber(detailed_anomalies)
        lines == ReportLines(sorted)
    IN IF fail = "open"
       THEN [list |-> sorted, file |-> old,
             ret |-> [raised |-> FALSE, value |-> ErrorMessage]]
       ELSE IF fail = "write"
       THEN [list |-> sorted, file |-> WrittenFile(<<>>),
             ret |-> [raised |-> FALSE, value |-> ErrorMessage]]
       ELSE [list |-> sorted, file |-> WrittenFile(lines),
             ret |-> [raised |-> FALSE, value |-> StatusMessage(sorted)]]

----------------------------------------------------------------------------
(* The drivers *)

Drivers == {"main", "gui", "lib"}

NoRet == [raised |-> FALSE, value |-> <<>>]
NoSource == [readable |-> FALSE, hasRepair |-> FALSE, hasCode |-> FALSE,
             rows |-> <<>>]

RECURSIVE Permutations(_)
Permutations(seq) ==
    IF seq = <<>> THEN {<<>>}
    ELSE UNION {{<<seq[i]>> \o p :
                    p \in Permutations([j \in 1..(Len(seq) - 1) |->
                                           IF j < i THEN seq[j] ELSE seq[j + 1]])} :
                i \in 1..Len(seq)}

\* The lists a driver hands to write_results_to_file: __main__ and the
\* analysis chain pass the detector's list as it is, a direct caller may
\* pass the records in any order.
Arguments(d, list) == IF d = "lib" THEN Permutations(list) ELSE {list}

Init ==
    /\ driver \in Drivers
    /\ pc = "start"
    /\ src = NoSource
    /\ loadRet = NoRet
    /\ data = EmptyDataFrame
    /\ detectRet = NoRet
    /\ flagged = <<>>
    /\ argBefore = <<>>
    /\ writeRet = NoRet
    /\ failAt = "none"
    /\ file \in (IF driver = "gui" THEN {NoFile, EarlierFile} ELSE {NoFile})
    /\ ui = [status |-> "idle", shown |-> NoFile]

\* data = load_sap_data(path)
Load ==
    /\ pc = "start"
    /\ \E s \in Sources :
        /\ src' = s
        /\ loadRet' = load_sap_data(s)
        /\ data' = load_sap_data(s).value
    /\ pc' = "loaded"
    /\ UNCHANGED <<driver, detectRet, flagged, argBefore, writeRet, failAt,
                   file, ui>>

\* __main__: "if not data.empty:" guards the rest of the test section.
MainSkip ==
    /\ pc = "loaded"
    /\ driver = "main"
    /\ data.rows = <<>>
    /\ pc' = "done"
    /\ UNCHANGED <<driver, src, loadRet, data, detectRet, flagged, argBefore,
                   writeRet, failAt, file, ui>>

\* flagged_list = find_anomalous_repairs(data)
Detect ==
    /\ pc = "loaded"
    /\ ~(driver = "main" /\ data.rows = <<>>)
    /\ detectRet' = find_anomalous_repairs(data)
    /\ flagged' = find_anomalous_repairs(data).value
    /\ pc' = "detected"
    /\ UNCHANGED <<driver, src, loadRet, data, argBefore, writeRet, failAt,
                   file, ui>>

\* output_message = write_results_to_file(flagged_list, path)
Write ==
    /\ pc = "detected"
    /\ \E arg \in Arguments(driver, flagged), fail \in FailPoints :
        LET r == write_results_to_file(arg, file, fail)
        IN /\ argBefore' = arg
           /\ flagged' = r.list
           /\ file' = r.file
           /\ writeRet' = r.ret
           /\ failAt' = fail
    /\ pc' = "written"
    /\ UNCHANGED <<driver, src, loadRet, data, detectRet, ui>>

\* __main__ lines 161-170: flagged_list.sort() compares dicts, which raises
\* TypeError as soon as the list holds two of them.
MainCompare ==
    /\ pc = "written"
    /\ driver = "main"
    /\ pc' = IF Len(flagged) >= 2 THEN "crashed" ELSE "done"
    /\ UNCHANGED <<driver, src, loadRet, data, detectRet, flagged, argBefore,
                   writeRet, failAt, file, ui>>

\* final_result of analysis_chain.invoke: None when the chain raised.
FinalResult ==
    IF loadRet.raised \/ detectRet.raised \/ writeRet.raised
    THEN [truthy |-> FALSE, value |-> ErrorMessage]
    ELSE [truthy |-> TRUE, value |-> writeRet.value]

\* The rest of the "Run Analysis" handler.
ShowResult(final_result, f) ==
    IF final_result.truthy
    THEN IF f.exists
         THEN [status |-> "Analysis Complete", shown |-> f]
         ELSE [status |-> "Analysis Complete, file not found", shown |-> NoFile]
    ELSE [status |-> "Analysis did not complete", shown |-> NoFile]

Display ==
    /\ pc = "written"
    /\ driver = "gui"
    /\ ui' = ShowResult(FinalResult, file)
    /\ pc' = "done"
    /\ UNCHANGED <<driver, src, loadRet, data, detectRet, flagged, argBefore,
                   writeRet, failAt, file>>

Next == Load \/ MainSkip \/ Detect \/ Write \/ MainCompare \/ Display

Spec == Init /\ [][Next]_vars

----------------------------------------------------------------------------
(* Vocabulary of the properties, stated over the input table itself *)

DetectDone ==
    \/ pc \in {"detected", "written", "crashed"}
    \/ pc = "done" /\ ~(driver = "main" /\ data.rows = <<>>)

WriteDone == pc \in {"written", "crashed"} \/ (pc = "done" /\ DetectDone)

WriteSucceeded == WriteDone /\ failAt = "none"

\* Tally of code c for repair id r in the table.
TallyOf(rows, r, c) ==
    Cardinality({i \in DOMAIN rows :
                    ~rows[i].null /\ rows[i].rid = r /\ rows[i].code = c})

RowCountOf(rows, r) ==
    Cardinality({i \in DOMAIN rows : ~rows[i].null /\ rows[i].rid = r})

RepairIdsIn(rows) == {rows[i].rid : i \in {j \in DOMAIN rows : ~rows[j].null}}

CodesOf(rows, r) ==
    {rows[i].code : i \in {j \in DOMAIN rows : ~rows[j].null /\ rows[j].rid = r}}

\* The tally is exactly {251:1, 161:1, 252:1}.
PerfectTally(rows, r) ==
    /\ CodesOf(rows, r) = {251, 161, 252}
    /\ \A c \in {251, 161, 252} : TallyOf(rows, r, c) = 1

\* The same, in the spec's three-condition form.
PerfectByCount(rows, r) ==
    /\ RowCountOf(rows, r) = 3
    /\ \A c \in {251, 161, 252} : TallyOf(rows, r, c) = 1
    /\ CodesOf(rows, r) \subseteq {251, 161, 252}

RecordsOf(out, r) == {i \in DOMAIN out : out[i].RepairNumber = r}

\* seq lists exactly the members of S, ascending.
AscendingListOf(seq, S) ==
    /\ {seq[i] : i \in DOMAIN seq} = S
    /\ \A i \in DOMAIN seq : \A j \in DOMAIN seq : i < j => seq[i] < seq[j]

\* s <= t in lexicographic (code point) order.
LexLeq(s, t) ==
    LET n == IF Len(s) < Len(t) THEN Len(s) ELSE Len(t)
    IN \/ \E i \in 1..n : s[i] < t[i] /\ \A j \in 1..(i - 1) : s[j] = t[j]
       \/ Len(s) <= Len(t) /\ \A j \in 1..n : s[j] = t[j]

AnomalyLinesOf(lines) == {i \in DOMAIN lines : lines[i].kind = "anomaly"}

----------------------------------------------------------------------------
\* C1: find_anomalous_repairs returns exactly one record for every distinct
\* repair id of the table whose tally is not exactly {251:1, 161:1, 252:1},
\* none for a repair id whose tally is exactly that, and no record for
\* anything else; a repair id is skipped iff its row count is 3, each of
\* 251, 161, 252 occurs once and no other code occurs.
C1_OneRecordPerImperfectRepair ==
    (DetectDone /\ data.rows # <<>>) =>
        LET out == detectRet.value
            rows == data.rows
        IN /\ ~detectRet.raised
           /\ \A r \in RepairIdsIn(rows) :
                /\ Cardinality(RecordsOf(out, r)) =
                       (IF PerfectTally(rows, r) THEN 0 ELSE 1)
                /\ (RecordsOf(out, r) = {}) <=> PerfectByCount(rows, r)
           /\ \A i \in DOMAIN out : out[i].RepairNumber \in RepairIdsIn(rows)

\* A table with a perfect repair next to an imperfect one has been analysed.
C1_Witness ==
    /\ DetectDone
    /\ \E r \in RepairIdsIn(data.rows) : PerfectTally(data.rows, r)
    /\ \E r \in RepairIdsIn(data.rows) : ~PerfectTally(data.rows, r)
    /\ Len(detectRet.value) = 1

\* C2: in every emitted record, missing_codes is the ascending list of the
\* required codes with tally 0, excess_codes the ascending list of the
\* required codes with tally above 1, unexpected_codes the ascending list of
\* the other codes that occur, and total_count the sum of all tallies.
C2_RecordFields ==
    DetectDone =>
        \A i \in DOMAIN detectRet.value :
            LET a == detectRet.value[i]
                rows == data.rows
                r == a.RepairNumber
            IN /\ AscendingListOf(a.MissingCodes,
                      {c \in {161, 251, 252} : TallyOf(rows, r, c) = 0})
               /\ AscendingListOf(a.ExtraCodes,
                      {c \in {161, 251, 252} : TallyOf(rows, r, c) > 1})
               /\ AscendingListOf(a.UnexpectedCodes,
                      CodesOf(rows, r) \ {161, 251, 252})
               /\ a.TotalCount = RowCountOf(rows, r)
               /\ \A c \in CodesOf(rows, r) :
                      a.MovementCodesFound[c] = TallyOf(rows, r, c)

\* A record with two missing codes, an excess code and an unexpected code.
C2_Witness ==
    /\ DetectDone
    /\ \E i \in DOMAIN detectRet.value :
        /\ Len(detectRet.value[i].MissingCodes) = 2
        /\ detectRet.value[i].ExtraCodes # <<>>
        /\ detectRet.value[i].UnexpectedCodes # <<>>
        /\ detectRet.value[i].TotalCount = 4

\* C3: whatever the order of the records handed to write_results_to_file,
\* the repair ids of consecutive anomaly lines of the report are in
\* ascending lexicographic order.
C3_ReportSortedByRepairId ==
    (WriteDone /\ file.fresh) =>
        \A i \in AnomalyLinesOf(file.lines) :
            \A j \in AnomalyLinesOf(file.lines) :
                j = i + 1 =>
                    LexLeq(file.lines[i].parts[1].rid, file.lines[j].parts[1].rid)

\* A report of two anomalies was written from a list in descending order.
C3_Witness ==
    /\ WriteSucceeded
    /\ Len(argBefore) = 2
    /\ ~LexLeq(argBefore[1].RepairNumber, argBefore[2].RepairNumber)
    /\ Cardinality(AnomalyLinesOf(file.lines)) = 2

\* C4 as stated: on an empty row sequence the detector returns an empty
\* list and the report written from it holds the "no anomalies found"
\* sentinel together with a footer stating a total flagged count of 0.
C4_EmptyReportHasFooter ==
    (WriteSucceeded /\ src.readable /\ src.hasRepair /\ src.hasCode
        /\ src.rows = <<>> /\ argBefore = <<>>) =>
        /\ detectRet.value = <<>>
        /\ \E i \in DOMAIN file.lines : file.lines[i] = SentinelLine
        /\ \E i \in DOMAIN file.lines : file.lines[i] = TotalLine(0)

\* C4 amended: on an empty row sequence the detector returns an empty list
\* without raising, and the report written from it is the sentinel line
\* alone, with no footer; the returned status message is the "No anomalies
\* found" message.
C4_EmptyReportIsSentinelOnly ==
    (WriteSucceeded /\ src.readable /\ src.hasRepair /\ src.hasCode
        /\ src.rows = <<>> /\ argBefore = <<>>) =>
        /\ ~detectRet.raised
        /\ detectRet.value = <<>>
        /\ file.lines = <<SentinelLine>>
        /\ \A i \in DOMAIN file.lines : file.lines[i].kind # "Total flagged:"
        /\ ~writeRet.raised
        /\ writeRet.value.text = "No anomalies found. Results summary written to"
        /\ writeRet.value.count = 0

\* An empty sheet with both columns went through detection and a
\* successful write.
C4_Witness ==
    /\ WriteSucceeded
    /\ src.readable /\ src.hasRepair /\ src.hasCode
    /\ src.rows = <<>>
    /\ file.fresh

\* Position of a clause in the fixed order of an anomaly line.
ClauseRank(tag) ==
    IF tag = "Repair" THEN 1
    ELSE IF tag = "Missing" THEN 2
    ELSE IF tag = "Extra Count(s)" THEN 3
    ELSE IF tag = "Unexpected Code(s)" THEN 4
    ELSE 0

HasClause(line, tag) == \E j \in DOMAIN line.parts : line.parts[j].tag = tag

ClauseCarriesTallies(line, tag, a, codes) ==
    \A j \in DOMAIN line.parts :
        line.parts[j].tag = tag =>
            /\ line.parts[j].codes = codes
            /\ Len(line.parts[j].tallies) = Len(codes)
            /\ \A n \in DOMAIN codes :
                   line.parts[j].tallies[n] = a.MovementCodesFound[codes[n]]

AnomalyLineMatches(line, a) ==
    /\ line.kind = "anomaly"
    /\ Len(line.parts) >= 1
    /\ line.parts[1].tag = "Repair"
    /\ line.parts[1].rid = a.RepairNumber
    /\ \A j \in DOMAIN line.parts : ClauseRank(line.parts[j].tag) >= 1
    /\ \A j \in DOMAIN line.parts : \A n \in DOMAIN line.parts :
           j < n => ClauseRank(line.parts[j].tag) < ClauseRank(line.parts[n].tag)
    /\ HasClause(line, "Missing") <=> a.MissingCodes # <<>>
    /\ HasClause(line, "Extra Count(s)") <=> a.ExtraCodes # <<>>
    /\ HasClause(line, "Unexpected Code(s)") <=> a.UnexpectedCodes # <<>>
    /\ \A j \in DOMAIN line.parts :
           line.parts[j].tag = "Missing" => line.parts[j].codes = a.MissingCodes
    /\ ClauseCarriesTallies(line, "Extra Count(s)", a, a.ExtraCodes)
    /\ ClauseCarriesTallies(line, "Unexpected Code(s)", a, a.UnexpectedCodes)

\* C5: for a non-empty list the report is a header, one line per anomaly
\* and a footer whose total equals the number of anomaly lines; each line
\* holds the clauses Repair, Missing, Extra Count(s), Unexpected Code(s) in
\* that order, Repair always, each other clause iff its list is non-empty,
\* every Extra/Unexpected entry with that code's tally.
C5_ReportLayout ==
    (WriteSucceeded /\ flagged # <<>>) =>
        LET lines == file.lines
            n == Len(flagged)
        IN /\ Len(lines) = n + 5
           /\ lines[1].kind = "Concise Anomaly Report:"
           /\ lines[2] = RuleLine
           /\ \A i \in 1..n : AnomalyLineMatches(lines[2 + i], flagged[i])
           /\ lines[n + 3] = RuleLine
           /\ lines[n + 5].kind = "Total flagged:"
           /\ lines[n + 5].count = Cardinality(AnomalyLinesOf(lines))
           /\ Cardinality(AnomalyLinesOf(lines)) = n

\* A report with a line of all four clauses and a line of two clauses.
C5_Witness ==
    /\ WriteSucceeded
    /\ \E i \in AnomalyLinesOf(file.lines) : Len(file.lines[i].parts) = 4
    /\ \E i \in AnomalyLinesOf(file.lines) : Len(file.lines[i].parts) = 2

\* C6 as stated: a source lacking 'Repair Number' or 'Movement Code' makes
\* load_sap_data signal an error to its caller and nothing is processed or
\* written from it; an unreadable source yields an empty sequence.
C6_MissingColumnsSignalled ==
    /\ (pc # "start" /\ src.readable /\ ~(src.hasRepair /\ src.hasCode)) =>
           /\ loadRet.raised
           /\ ~DetectDone
           /\ ~(WriteDone /\ file.fresh)
    /\ (pc # "start" /\ ~src.readable) =>
           (~loadRet.raised /\ loadRet.value.rows = <<>>)

\* C7 as stated: a write failure reaches the caller of
\* write_results_to_file as an error, and the upload page neither announces
\* "Analysis Complete" nor shows a report file of an earlier run for it.
C7_WriteFailureSurfaced ==
    (WriteDone /\ failAt # "none") =>
        /\ writeRet.raised
        /\ ui.status # "Analysis Complete"
        /\ ~(ui.shown.exists /\ ~ui.shown.fresh)

\* C8 as stated: after write_results_to_file returns, the caller's list
\* holds the same records in the same order as before the call.
C8_ArgumentUntouched ==
    WriteDone => flagged = argBefore

\* C9 as stated: a table holding a row with a null repair id is rejected as
\* a whole by find_anomalous_repairs, with no records computed from the
\* other rows.
C9_NullRowRejectsBatch ==
    (DetectDone /\ \E i \in DOMAIN data.rows : data.rows[i].null) =>
        (detectRet.raised /\ detectRet.value = <<>>)

\* C10: every emitted record has a non-empty missing, excess or unexpected
\* list, also when its total count differs from 3, and every anomaly line of
\* the report has a reason clause after the Repair clause.
C10_EveryAnomalyHasReason ==
    /\ DetectDone =>
           \A i \in DOMAIN detectRet.value :
               \/ detectRet.value[i].MissingCodes # <<>>
               \/ detectRet.value[i].ExtraCodes # <<>>
               \/ detectRet.value[i].UnexpectedCodes # <<>>
    /\ (WriteDone /\ file.fresh) =>
           \A i \in AnomalyLinesOf(file.lines) :
               /\ Len(file.lines[i].parts) >= 2
               /\ file.lines[i].parts[1].tag = "Repair"

\* A repair with a total count other than 3 was flagged and reported.
C10_Witness ==
    /\ WriteSucceeded
    /\ \E i \in DOMAIN detectRet.value : detectRet.value[i].TotalCount # 3
    /\ AnomalyLinesOf(file.lines) # {}

====
